---- MODULE Spec2Model ----
(***************************************************************************)
(* c2pa-node-v2: the Builder wrapper (js-src/Builder.ts) over the native   *)
(* engine binding, its sign dispatch, and the Settings helpers             *)
(* (js-src/Settings.ts).                                                   *)
(*                                                                         *)
(* The native engine (getNeonBinary()) is not part of js-src: the model    *)
(* keeps it as an opaque party that receives calls, may accept or reject   *)
(* each of them, and answers asynchronous calls at a later step.           *)
(***************************************************************************)
EXTENDS Integers, Sequences, FiniteSets, TLC

\* ------------------------------------------------------------------ bounds

\* Operations the caller issues on one Builder in one behaviour of Spec.
MaxOps == 2

\* Operations the caller issues in one behaviour of IngredientSpec.
MaxIngredientOps == 4

\* Sign operations the caller issues in one behaviour of SignSpec.
MaxSigns == 2

\* ------------------------------------------------------------- JS values

\* A key that is not there, or a value that is undefined.
Absent == "absent"

\* A Buffer holding bytes b.
Buf(b) == [err |-> Absent, bytes |-> b, manifest |-> Absent, signedAsset |-> Absent]

\* A plain object with the keys manifest and signedAsset (each may be missing).
Obj(m, a) == [err |-> Absent, bytes |-> Absent, manifest |-> m, signedAsset |-> a]

\* An Error value with message e.
Err(e) == [err |-> e, bytes |-> Absent, manifest |-> Absent, signedAsset |-> Absent]

\* undefined (the value of a void call).
Void == [err |-> Absent, bytes |-> Absent, manifest |-> Absent, signedAsset |-> Absent]

IsError(v) == v.err # Absent

\* Byte contents used by the engine's answers.
Manifests == {"m1", "m2"}
Assets == {"a1"}

\* What the engine's sign promise can settle with: a Buffer, an object with
\* any of the two keys, or a rejection (the caller's signing callback failed,
\* or the engine itself did).
CallbackError == "callback error"
EngineError == "engine error"
UnexpectedResult == "Unexpected result for DestinationBuffer"

SignResolutions ==
  {Buf(m) : m \in Manifests}
    \cup {Obj(m, a) : m \in Manifests \cup {Absent}, a \in Assets \cup {Absent}}
SignRejections == {Err(CallbackError), Err(EngineError)}
SignOutcomes == SignResolutions \cup SignRejections


\* ----------------------------------------------------- destination assets

\* DestinationAsset objects of the caller: one { buffer } and one { path },
\* and a second { buffer } for signs that run side by side.
Outputs == {"outBuffer", "outFile"}
Buffers == {"outBuffer", "outBuffer2"}
Destinations == Outputs \cup Buffers
InitialBytes == "b0"
InitOutputs ==
  [o \in Destinations |->
     IF o \in Buffers THEN [hasBuffer |-> TRUE, buffer |-> InitialBytes]
     ELSE [hasBuffer |-> FALSE, buffer |-> Absent]]


\* -------------------------------------------------------------- the state

VARIABLES
  builder,      \* Builder.builder: the engine handle this Builder wraps
  ops,          \* the operations issued on the Builder, in issue order
  engineCalls,  \* the calls the engine has received for the handle, in order
  outstanding,  \* issue numbers of engine calls received and not yet answered
  outputs,      \* the caller's DestinationAsset objects
  intent,       \* engine side: the recorded intent
  ingredients,  \* engine side: relationships of the ingredients, in order
  hasSigned,    \* history: some sign operation on this Builder has succeeded
  signedWith,   \* history: intent and ingredients at the last successful sign
  frags,        \* Settings: the fragments handed to mergeSettings
  merged,       \* Settings: the result of mergeSettings
  refs,         \* Settings: which objects the result and its sections are
  json,         \* Settings: JSON.parse of the result of settingsToJson
  sphase,       \* Settings: "input", "merged" or "json"
  configs,      \* Settings, history: how each fragment was made, and from what
  loads,        \* Settings: the loadSettingsFromUrl calls, in issue order
  fetches,      \* the fetch calls made, in order
  fileLoads,    \* Settings: the loadSettingsFromFile calls, in issue order
  instances,    \* the Builders constructed, in order, and what each was given
  callerSettings, \* the caller's settings object, as it is now
  archives      \* the caller's archive assets and what the engine wrote there

builderVars ==
  <<builder, ops, engineCalls, outstanding, outputs, intent, ingredients,
    hasSigned, signedWith>>
mergeVars == <<frags, merged, refs, json, sphase, configs>>
loadVars == <<loads, fetches, fileLoads>>
constructVars == <<instances, callerSettings>>
\* Everything an operation on the Builder leaves alone (toArchive apart).
settingsVars ==
  <<frags, merged, refs, json, sphase, configs, loads, fetches, fileLoads,
    instances, callerSettings, archives>>
vars == <<builderVars, mergeVars, loadVars, constructVars, archives>>

TheHandle == "handle1"

\* The engine's answers to a sign where the shape of the answer is not the
\* subject: the shape that goes with the destination, or a rejection.
CoarseOutcomes(out) ==
  {IF out \in Destinations /\ InitOutputs[out].hasBuffer THEN Obj("m1", "a1") ELSE Buf("m1"),
   Err(EngineError)}

Intents == {"create", "edit", "update"}
Relationships == {"parentOf", "componentOf"}

SyncSigns == {"sign", "signFile"}
AsyncSigns == {"signAsync", "signConfigAsync"}
SignNames == SyncSigns \cup AsyncSigns

ParentCount(ings) == Cardinality({i \in DOMAIN ings : ings[i] = "parentOf"})

\* One issued operation. raw is the engine's own answer (Void while there is
\* none); value is what the caller gets. Two history fields record the state
\* the operation was issued in: ruleHit, an addIngredient of a parentOf
\* ingredient issued while the intent was update and a parentOf ingredient was
\* already held; afterSigned, issued after a sign had succeeded.
OpIn(name, arg, input, out, status, value, raw) ==
  [name |-> name, arg |-> arg, input |-> input, output |-> out,
   status |-> status, value |-> value, raw |-> raw, on |-> builder,
   ruleHit |-> (name = "addIngredient" /\ arg = "parentOf" /\ intent = "update"
                /\ ParentCount(ingredients) >= 1),
   afterSigned |-> hasSigned]

\* An operation whose source or ingredient asset is not looked at.
NoInput == "na"
Op(name, arg, out, status, value, raw) ==
  OpIn(name, arg, NoInput, out, status, value, raw)

\* <fn>.call(this.builder, ...args): the engine receives the call now. No
\* operation of a Builder has a settings string among its arguments.
ForwardWith(fn, args) ==
  Append(engineCalls,
         [fn |-> fn, seq |-> Len(ops) + 1, handle |-> builder, args |-> args,
          settings |-> FALSE])

\* A forwarded call whose arguments are not looked at.
Forward(fn) == ForwardWith(fn, <<>>)

CallsOf(i) == {j \in DOMAIN engineCalls : engineCalls[j].seq = i}


\* ------------------------------------------------------ the sign dispatch

\* What a .then callback leaves: how the promise settles, with what value, and
\* the destination object as the callback leaves it.
Settled(status, value, output) ==
  [status |-> status, value |-> value, output |-> output]

\* Mutant of SignAsyncThen: the manifest is returned, the destination's
\* buffer is not assigned.
SignAsyncThen_noWrite(output, result) ==
  IF output.hasBuffer
  THEN IF result.signedAsset # Absent /\ result.manifest # Absent
       THEN Settled("resolved", Buf(result.manifest), output)
       ELSE Settled("rejected", Err(UnexpectedResult), output)
  ELSE Settled("resolved", result, output)

\* Mutant of SignAsyncThen: the destination's buffer is assigned before the
\* shape of the result is checked.
SignAsyncThen_writeFirst(output, result) ==
  IF output.hasBuffer
  THEN IF result.signedAsset # Absent /\ result.manifest # Absent
       THEN Settled("resolved", Buf(result.manifest),
                    [output EXCEPT !.buffer = result.signedAsset])
       ELSE Settled("rejected", Err(UnexpectedResult),
                    [output EXCEPT !.buffer = result.signedAsset])
  ELSE Settled("resolved", result, output)

\* Builder.signAsync, the .then callback on the engine's promise.
SignAsyncThen(output, result) ==
  IF output.hasBuffer
  THEN IF result.signedAsset # Absent /\ result.manifest # Absent
       THEN Settled("resolved", Buf(result.manifest),
                    [output EXCEPT !.buffer = result.signedAsset])
       ELSE Settled("rejected", Err(UnexpectedResult), output)
  ELSE Settled("resolved", result, output)

\* Builder.signConfigAsync, the .then callback on the engine's promise.
SignConfigAsyncThen(output, result) ==
  IF output.hasBuffer
  THEN IF result.signedAsset # Absent /\ result.manifest # Absent
       THEN Settled("resolved", Buf(result.manifest),
                    [output EXCEPT !.buffer = result.signedAsset])
       ELSE Settled("rejected", Err(UnexpectedResult), output)
  ELSE Settled("resolved", result, output)

\* Mutant of SignCatch: the error is wrapped in a new Error.
SignCatch_wrapped(output, error) ==
  Settled("rejected", Err("sign failed"), output)

\* The .catch callback of both: throw error.
SignCatch(output, error) == Settled("rejected", error, output)

\* The promise an asynchronous sign returns, once the engine's promise has
\* settled with outcome (a rejection skips .then and reaches .catch; what
\* .then throws reaches .catch too).
SignSettle(name, output, outcome) ==
  IF IsError(outcome)
  THEN SignCatch(output, outcome)
  ELSE LET t == IF name = "signConfigAsync"
                THEN SignConfigAsyncThen(output, outcome)
                ELSE SignAsyncThen(output, outcome)
       IN  IF t.status = "rejected" THEN SignCatch(t.output, t.value) ELSE t

\* ------------------------------------------------------------ the engine

\* Mutant of EngineValidAtSign: the engine signs without applying the rules.
EngineValidAtSign_lax(int, ings) == TRUE

\* The structural rules of an intent, which the engine applies when it signs:
\* create has no parent ingredient; edit has one parent (the engine makes one
\* from the source when none was added); update has one ingredient at most,
\* a parent.
EngineValidAtSign(int, ings) ==
  CASE int = "create" -> ParentCount(ings) = 0
    [] int = "edit" -> ParentCount(ings) <= 1
    [] int = "update" -> Len(ings) <= 1 /\ ParentCount(ings) = Len(ings)
    [] OTHER -> TRUE

\* The intents a caller hands to setIntent: the well-formed ones and a create
\* intent without a digital source type.
MalformedIntent == "createWithoutSourceType"
IntentInputs == Intents \cup {MalformedIntent}

\* Mutant of EngineAcceptsIntent: the engine records whatever it is given.
EngineAcceptsIntent_lax(i) == TRUE

\* The engine's check of an intent: its shape only (a create intent needs its
\* digital source type), never the ingredients already held.
EngineAcceptsIntent(i) == i \in Intents

\* The cardinality rule the engine applies when an ingredient is added: under
\* intent edit or update it rejects a second parentOf ingredient.
EngineAcceptsIngredient(int, ings, rel) ==
  ~(int \in {"edit", "update"} /\ rel = "parentOf" /\ ParentCount(ings) >= 1)

\* builderSign (synchronous): with a buffer destination the engine itself
\* stores the signed asset a in the destination before it returns.
EngineSyncSignWrite(output, outcome, a) ==
  IF ~IsError(outcome) /\ output.hasBuffer
  THEN [output EXCEPT !.buffer = a]
  ELSE output

SignedState == [intent |-> intent, parents |-> ParentCount(ingredients)]


\* ------------------------------------------------- Builder: the operations

EngineAnswer(ok) == IF ok THEN Void ELSE Err(EngineError)
StatusOf(outcome) == IF IsError(outcome) THEN "rejected" ELSE "resolved"

\* Builder.setIntent: JSON.stringify(intent) is handed to the engine in one
\* synchronous call; the engine records the intent unless it throws, and it
\* throws (ok = FALSE) exactly when it does not accept the intent.
SetIntent(i, ok) ==
  /\ ok = EngineAcceptsIntent(i)
  /\ engineCalls' = Forward("builderSetIntent")
  /\ ops' = Append(ops, Op("setIntent", i, "na", StatusOf(EngineAnswer(ok)),
                           EngineAnswer(ok), EngineAnswer(ok)))
  /\ intent' = IF ok THEN i ELSE intent
  /\ UNCHANGED <<builder, outstanding, outputs, ingredients, hasSigned,
                 signedWith, settingsVars>>

\* Builder.addAction: one synchronous engine call.
AddAction(ok) ==
  /\ engineCalls' = Forward("builderAddAction")
  /\ ops' = Append(ops, Op("addAction", "na", "na", StatusOf(EngineAnswer(ok)),
                           EngineAnswer(ok), EngineAnswer(ok)))
  /\ UNCHANGED <<builder, outstanding, outputs, intent, ingredients, hasSigned,
                 signedWith, settingsVars>>

\* Builder.addAssertion: one synchronous engine call.
AddAssertion(ok) ==
  /\ engineCalls' = Forward("builderAddAssertion")
  /\ ops' = Append(ops, Op("addAssertion", "na", "na",
                           StatusOf(EngineAnswer(ok)), EngineAnswer(ok),
                           EngineAnswer(ok)))
  /\ UNCHANGED <<builder, outstanding, outputs, intent, ingredients, hasSigned,
                 signedWith, settingsVars>>

\* Mutant of AddResource: the engine call is not made in the call itself (it
\* is put off to a later turn of the event loop).
AddResource_deferred ==
  /\ ops' = Append(ops, Op("addResource", "na", "na", "pending", Void, Void))
  /\ UNCHANGED <<builder, engineCalls, outstanding, outputs, intent,
                 ingredients, hasSigned, signedWith, settingsVars>>

\* Builder.addResource: the engine call is made in the call itself; the
\* promise it returns settles later.
AddResource ==
  /\ engineCalls' = Forward("builderAddResource")
  /\ outstanding' = outstanding \cup {Len(ops) + 1}
  /\ ops' = Append(ops, Op("addResource", "na", "na", "pending", Void, Void))
  /\ UNCHANGED <<builder, outputs, intent, ingredients, hasSigned, signedWith,
                 settingsVars>>

\* The arguments of addIngredient: the definition (a JSON text, here with
\* the relationship alone) and the asset.
IngredientJson(rel) == "{\"relationship\":\"" \o rel \o "\"}"
IngredientAsset == "ingredient.jpg"

\* Mutant of AddIngredient: the asset entry point is called whether or not
\* an asset is given.
AddIngredient_alwaysAsset(rel, hasAsset) ==
  /\ engineCalls' = ForwardWith("builderAddIngredientFromAsset",
                                <<IngredientJson(rel), IngredientAsset>>)
  /\ outstanding' = outstanding \cup {Len(ops) + 1}
  /\ ops' = Append(ops,
       OpIn("addIngredient", rel,
            IF hasAsset THEN IngredientAsset ELSE NoInput,
            "na", "pending", Void, Void))
  /\ UNCHANGED <<builder, outputs, intent, ingredients, hasSigned, signedWith,
                 settingsVars>>

\* Mutant of AddIngredient: the wrapper checks the cardinality rule of update
\* itself and throws, without an engine call, on a second parentOf.
AddIngredient_checked(rel, hasAsset) ==
  IF intent = "update" /\ rel = "parentOf" /\ ParentCount(ingredients) >= 1
  THEN /\ ops' = Append(ops, Op("addIngredient", rel, "na", "rejected",
                                Err("validation error"), Void))
       /\ UNCHANGED <<builder, engineCalls, outstanding, outputs, intent,
                      ingredients, hasSigned, signedWith, settingsVars>>
  ELSE /\ engineCalls' = Forward(IF hasAsset THEN "builderAddIngredientFromAsset"
                                 ELSE "builderAddIngredient")
       /\ outstanding' = outstanding \cup {Len(ops) + 1}
       /\ ops' = Append(ops,
            Op("addIngredient", rel, "na", "pending", Void, Void))
       /\ UNCHANGED <<builder, outputs, intent, ingredients, hasSigned,
                      signedWith, settingsVars>>

\* Builder.addIngredient: builderAddIngredientFromAsset when an asset is
\* given, builderAddIngredient otherwise; no check of its own.
AddIngredient(rel, hasAsset) ==
  /\ engineCalls' =
       IF hasAsset
       THEN ForwardWith("builderAddIngredientFromAsset",
                        <<IngredientJson(rel), IngredientAsset>>)
       ELSE ForwardWith("builderAddIngredient", <<IngredientJson(rel)>>)
  /\ outstanding' = outstanding \cup {Len(ops) + 1}
  /\ ops' = Append(ops,
       OpIn("addIngredient", rel,
            IF hasAsset THEN IngredientAsset ELSE NoInput,
            "na", "pending", Void, Void))
  /\ UNCHANGED <<builder, outputs, intent, ingredients, hasSigned, signedWith,
                 settingsVars>>

\* Builder.addIngredientFromReader: one synchronous engine call; the engine
\* attaches the reader's ingredient (relationship rel) unless it throws (it
\* does when the ingredient breaks the cardinality rule).
AddIngredientFromReader(rel, ok) ==
  /\ ok => EngineAcceptsIngredient(intent, ingredients, rel)
  /\ engineCalls' = Forward("builderAddIngredientFromReader")
  /\ ops' = Append(ops, Op("addIngredientFromReader", rel, "na",
                           StatusOf(EngineAnswer(ok)), EngineAnswer(ok),
                           EngineAnswer(ok)))
  /\ ingredients' = IF ok THEN Append(ingredients, rel) ELSE ingredients
  /\ UNCHANGED <<builder, outstanding, outputs, intent, hasSigned, signedWith,
                 settingsVars>>

\* The caller's archive asset ({ path: 'builder-archive.zip' }), and what
\* is there before anything was written.
TheArchive == "builder-archive.zip"
NoArchive == [written |-> FALSE, ingredients |-> <<>>]

\* Engine: the archive of a Builder holds its ingredients, in their order.
EngineWriteArchive(ings) == [written |-> TRUE, ingredients |-> ings]

\* Builder.toArchive: the engine call is made in the call itself.
ToArchive ==
  /\ engineCalls' = Forward("builderToArchive")
  /\ outstanding' = outstanding \cup {Len(ops) + 1}
  /\ ops' = Append(ops, Op("toArchive", "na", "na", "pending", Void, Void))
  /\ UNCHANGED <<builder, outputs, intent, ingredients, hasSigned, signedWith,
                 settingsVars>>

\* The engine answers an addResource or toArchive call; a toArchive that
\* succeeds has written the archive to the caller's asset.
SettleVoid(i, ok) ==
  /\ i \in outstanding
  /\ ops[i].on = builder
  /\ ops[i].name \in {"addResource", "toArchive"}
  /\ outstanding' = outstanding \ {i}
  /\ ops' = [ops EXCEPT ![i].status = StatusOf(EngineAnswer(ok)),
                        ![i].value = EngineAnswer(ok),
                        ![i].raw = EngineAnswer(ok)]
  /\ archives' = IF ops[i].name = "toArchive" /\ ok
                 THEN [archives EXCEPT ![TheArchive] =
                                         EngineWriteArchive(ingredients)]
                 ELSE archives
  /\ UNCHANGED <<builder, engineCalls, outputs, intent, ingredients, hasSigned,
                 signedWith, mergeVars, loadVars, constructVars>>

\* The engine answers an addIngredient call: it attaches the ingredient, or
\* rejects the call (it does when the ingredient breaks the cardinality rule).
SettleIngredient(i, ok) ==
  /\ i \in outstanding
  /\ ops[i].on = builder
  /\ ops[i].name = "addIngredient"
  /\ ok => EngineAcceptsIngredient(intent, ingredients, ops[i].arg)
  /\ outstanding' = outstanding \ {i}
  /\ ops' = [ops EXCEPT ![i].status = StatusOf(EngineAnswer(ok)),
                        ![i].value = EngineAnswer(ok),
                        ![i].raw = EngineAnswer(ok)]
  /\ ingredients' = IF ok THEN Append(ingredients, ops[i].arg) ELSE ingredients
  /\ UNCHANGED <<builder, engineCalls, outputs, intent, hasSigned, signedWith,
                 settingsVars>>


\* ------------------------------------------------ Builder: sign operations

\* Mutant of Sign: a Builder that has signed refuses to sign again, without
\* an engine call.
Sign_terminal(out, outcome, a) ==
  IF hasSigned
  THEN /\ ops' = Append(ops, Op("sign", "local", out, "rejected",
                                Err("already signed"), Void))
       /\ UNCHANGED <<builder, engineCalls, outstanding, outputs, intent,
                      ingredients, hasSigned, signedWith, settingsVars>>
  ELSE /\ ~IsError(outcome) => EngineValidAtSign(intent, ingredients)
       /\ engineCalls' = Forward("builderSign")
       /\ ops' = Append(ops, Op("sign", "local", out, StatusOf(outcome),
                                outcome, outcome))
       /\ outputs' = [outputs EXCEPT ![out] = EngineSyncSignWrite(@, outcome, a)]
       /\ hasSigned' = (hasSigned \/ ~IsError(outcome))
       /\ signedWith' = IF IsError(outcome) THEN signedWith ELSE SignedState
       /\ UNCHANGED <<builder, outstanding, intent, ingredients, settingsVars>>

\* Builder.sign: one synchronous engine call; what the engine returns is
\* returned as it is, what it throws is thrown.
Sign(out, outcome, a) ==
  /\ ~IsError(outcome) => EngineValidAtSign(intent, ingredients)
  /\ engineCalls' = Forward("builderSign")
  /\ ops' = Append(ops, Op("sign", "local", out, StatusOf(outcome), outcome,
                           outcome))
  /\ outputs' = [outputs EXCEPT ![out] = EngineSyncSignWrite(@, outcome, a)]
  /\ hasSigned' = (hasSigned \/ ~IsError(outcome))
  /\ signedWith' = IF IsError(outcome) THEN signedWith ELSE SignedState
  /\ UNCHANGED <<builder, outstanding, intent, ingredients, settingsVars>>

\* Builder.signFile: as sign, with the source given as a path.
SignFile(out, outcome, a) ==
  /\ ~IsError(outcome) => EngineValidAtSign(intent, ingredients)
  /\ engineCalls' = Forward("builderSign")
  /\ ops' = Append(ops, Op("signFile", "local", out, StatusOf(outcome),
                           outcome, outcome))
  /\ outputs' = [outputs EXCEPT ![out] = EngineSyncSignWrite(@, outcome, a)]
  /\ hasSigned' = (hasSigned \/ ~IsError(outcome))
  /\ signedWith' = IF IsError(outcome) THEN signedWith ELSE SignedState
  /\ UNCHANGED <<builder, outstanding, intent, ingredients, settingsVars>>

\* Builder.signConfigAsync, up to the promise it returns: the engine call is
\* made in the call itself.
SignConfigAsync(out) ==
  /\ engineCalls' = Forward("builderSignConfigAsync")
  /\ outstanding' = outstanding \cup {Len(ops) + 1}
  /\ ops' = Append(ops, Op("signConfigAsync", "config", out, "pending", Void,
                           Void))
  /\ UNCHANGED <<builder, outputs, intent, ingredients, hasSigned, signedWith,
                 settingsVars>>

\* The signers: two callback signers and an IdentityAssertionSigner; what
\* signer instanceof IdentityAssertionSigner and signer.getHandle() give.
Signers == {"callback", "callback2", "identity"}
IsIdentity(signer) == signer = "identity"
GetHandle(signer) == "handle of " \o signer

\* The caller's source assets.
TheSource == "source.jpg"
Sources == {TheSource, "source2.jpg"}

\* Mutant of SignAsync: every signer goes to builderSignAsync.
SignAsync_callbackOnly(signer, input, out) ==
  /\ engineCalls' = ForwardWith("builderSignAsync",
                                <<GetHandle(signer), input, out>>)
  /\ outstanding' = outstanding \cup {Len(ops) + 1}
  /\ ops' = Append(ops, OpIn("signAsync", signer, input, out, "pending",
                             Void, Void))
  /\ UNCHANGED <<builder, outputs, intent, ingredients, hasSigned, signedWith,
                 settingsVars>>

\* Mutant of SignAsync: the wrapper holds the engine call back while another
\* asynchronous sign is outstanding.
SignAsync_queued(signer, input, out) ==
  IF \E i \in outstanding : ops[i].name \in AsyncSigns
  THEN /\ ops' = Append(ops, OpIn("signAsync", signer, input, out,
                                  "pending", Void, Void))
       /\ UNCHANGED <<builder, engineCalls, outstanding, outputs, intent,
                      ingredients, hasSigned, signedWith, settingsVars>>
  ELSE /\ engineCalls' = ForwardWith(IF IsIdentity(signer)
                                     THEN "builderIdentitySignAsync"
                                     ELSE "builderSignAsync",
                                     <<GetHandle(signer), input, out>>)
       /\ outstanding' = outstanding \cup {Len(ops) + 1}
       /\ ops' = Append(ops, OpIn("signAsync", signer, input, out,
                                  "pending", Void, Void))
       /\ UNCHANGED <<builder, outputs, intent, ingredients, hasSigned,
                      signedWith, settingsVars>>

\* Builder.signAsync, up to the promise it returns: builderIdentitySignAsync
\* for an IdentityAssertionSigner, builderSignAsync otherwise.
SignAsync(signer, input, out) ==
  /\ engineCalls' = ForwardWith(IF IsIdentity(signer)
                                THEN "builderIdentitySignAsync"
                                ELSE "builderSignAsync",
                                <<GetHandle(signer), input, out>>)
  /\ outstanding' = outstanding \cup {Len(ops) + 1}
  /\ ops' = Append(ops, OpIn("signAsync", signer, input, out, "pending",
                             Void, Void))
  /\ UNCHANGED <<builder, outputs, intent, ingredients, hasSigned, signedWith,
                 settingsVars>>

\* Mutant of SettleSign: the callbacks use the destination of the sign that
\* was issued last.
SettleSign_lastDestination(i, outcome) ==
  /\ i \in outstanding
  /\ ops[i].on = builder
  /\ ops[i].name \in AsyncSigns
  /\ ~IsError(outcome) => EngineValidAtSign(intent, ingredients)
  /\ LET last == ops[Len(ops)].output
         s == SignSettle(ops[i].name, outputs[last], outcome)
     IN  /\ ops' = [ops EXCEPT ![i].status = s.status, ![i].value = s.value,
                               ![i].raw = outcome]
         /\ outputs' = [outputs EXCEPT ![last] = s.output]
         /\ hasSigned' = (hasSigned \/ s.status = "resolved")
  /\ outstanding' = outstanding \ {i}
  /\ signedWith' = IF IsError(outcome) THEN signedWith ELSE SignedState
  /\ UNCHANGED <<builder, engineCalls, intent, ingredients, settingsVars>>

\* The engine settles the promise of an asynchronous sign with outcome, and
\* the .then / .catch callbacks of signAsync or signConfigAsync run.
SettleSign(i, outcome) ==
  /\ i \in outstanding
  /\ ops[i].on = builder
  /\ ops[i].name \in AsyncSigns
  /\ ~IsError(outcome) => EngineValidAtSign(intent, ingredients)
  /\ LET s == SignSettle(ops[i].name, outputs[ops[i].output], outcome)
     IN  /\ ops' = [ops EXCEPT ![i].status = s.status, ![i].value = s.value,
                               ![i].raw = outcome]
         /\ outputs' = [outputs EXCEPT ![ops[i].output] = s.output]
         /\ hasSigned' = (hasSigned \/ s.status = "resolved")
  /\ outstanding' = outstanding \ {i}
  /\ signedWith' = IF IsError(outcome) THEN signedWith ELSE SignedState
  /\ UNCHANGED <<builder, engineCalls, intent, ingredients, settingsVars>>

\* ------------------------------------------------- Settings: loading by URL

Urls == {"https://example.com/settings.json", "https://example.com/missing.json"}

\* An Error object.
ErrorObj(message) == [message |-> message]
NoError == ErrorObj("")

\* Response objects of fetch: res.ok says that the status is one of 200..299.
HttpStatuses == {200, 404, 500}
StatusText(status) ==
  CASE status = 200 -> "OK"
    [] status = 404 -> "Not Found"
    [] status = 500 -> "Internal Server Error"
Bodies == {"{\"verify\":{\"verify_after_reading\":true}}", "[verify]"}
Response(status, body) ==
  [ok |-> status \in 200..299, status |-> status,
   statusText |-> StatusText(status), body |-> body]
NoResponse == [ok |-> FALSE, status |-> 0, statusText |-> "", body |-> ""]

\* How the promise of fetch(url) settles: rejected with an error of the
\* transport, or resolved with a response.
FetchOutcomes ==
  {[rejected |-> TRUE, error |-> ErrorObj("Network error"),
    response |-> NoResponse]}
    \cup {[rejected |-> FALSE, error |-> NoError, response |-> Response(s, b)] :
            s \in HttpStatuses, b \in Bodies}

\* How the promise of res.text() settles: with the body, or rejected when
\* the body cannot be read to its end.
TextOutcomes(res) ==
  {[rejected |-> FALSE, error |-> NoError, text |-> res.body],
   [rejected |-> TRUE, error |-> ErrorObj("Premature close"), text |-> ""]}
NotSettled == [rejected |-> FALSE, error |-> NoError, response |-> NoResponse]
NotRead == [rejected |-> FALSE, error |-> NoError, text |-> ""]

\* `Failed to fetch settings from URL: ${res.status} ${res.statusText}`
FailedFetchMessage(res) ==
  "Failed to fetch settings from URL: " \o ToString(res.status) \o " "
    \o res.statusText

\* Mutant of AfterFetch: res.ok is not looked at.
AfterFetch_anyStatus(load, outcome) ==
  IF outcome.rejected
  THEN [load EXCEPT !.status = "rejected", !.error = outcome.error,
                    !.fetched = outcome]
  ELSE [load EXCEPT !.status = "reading", !.fetched = outcome]

\* Mutant of AfterFetch: an error of the transport is reported with the
\* message of a failed fetch.
AfterFetch_wrapped(load, outcome) ==
  IF outcome.rejected \/ ~outcome.response.ok
  THEN [load EXCEPT !.status = "rejected",
                    !.error = ErrorObj(FailedFetchMessage(outcome.response)),
                    !.fetched = outcome]
  ELSE [load EXCEPT !.status = "reading", !.fetched = outcome]

\* loadSettingsFromUrl from `await fetch(url)` on: a rejection of fetch
\* rejects the call with the same error; a response that is not ok makes it
\* throw; otherwise res.text() is called and awaited.
AfterFetch(load, outcome) ==
  IF outcome.rejected
  THEN [load EXCEPT !.status = "rejected", !.error = outcome.error,
                    !.fetched = outcome]
  ELSE IF ~outcome.response.ok
       THEN [load EXCEPT !.status = "rejected",
                         !.error = ErrorObj(FailedFetchMessage(outcome.response)),
                         !.fetched = outcome]
       ELSE [load EXCEPT !.status = "reading", !.fetched = outcome]

\* `return await res.text()`
AfterText(load, outcome) ==
  IF outcome.rejected
  THEN [load EXCEPT !.status = "rejected", !.error = outcome.error,
                    !.read = outcome]
  ELSE [load EXCEPT !.status = "resolved", !.text = outcome.text,
                    !.read = outcome]

\* loadSettingsFromUrl(url), up to its first await: fetch(url) is called.
LoadSettingsFromUrl(url) ==
  /\ loads' = Append(loads, [url |-> url, status |-> "fetching",
                             fetched |-> NotSettled, read |-> NotRead,
                             text |-> "", error |-> NoError])
  /\ fetches' = Append(fetches, [load |-> Len(loads) + 1, url |-> url])
  /\ UNCHANGED <<fileLoads, mergeVars, builderVars, constructVars, archives>>

\* Mutant of FetchSettles: after an error of the transport, fetch is called
\* again.
FetchSettles_retry(l, outcome) ==
  /\ l \in DOMAIN loads
  /\ loads[l].status = "fetching"
  /\ IF outcome.rejected
     THEN /\ fetches' = Append(fetches, [load |-> l, url |-> loads[l].url])
          /\ loads' = loads
     ELSE /\ fetches' = fetches
          /\ loads' = [loads EXCEPT ![l] = AfterFetch(@, outcome)]
  /\ UNCHANGED <<fileLoads, mergeVars, builderVars, constructVars, archives>>

\* The promise of fetch settles and loadSettingsFromUrl goes on.
FetchSettles(l, outcome) ==
  /\ l \in DOMAIN loads
  /\ loads[l].status = "fetching"
  /\ loads' = [loads EXCEPT ![l] = AfterFetch(@, outcome)]
  /\ UNCHANGED <<fetches, fileLoads, mergeVars, builderVars, constructVars, archives>>

\* The promise of res.text() settles and loadSettingsFromUrl returns.
TextSettles(l, outcome) ==
  /\ l \in DOMAIN loads
  /\ loads[l].status = "reading"
  /\ loads' = [loads EXCEPT ![l] = AfterText(@, outcome)]
  /\ UNCHANGED <<fetches, fileLoads, mergeVars, builderVars, constructVars, archives>>

\* ------------------------------------------------ Settings: loading a file

\* loadSettingsFromFile calls in FileSpec.
MaxFileLoads == 2

\* The characters of the stored texts; the last is not an ASCII character.
Chars == {"{", "}", "[", "]", "=", "v", "U+00E9"}
ReplacementChar == "U+FFFD"

\* UTF-8: the bytes of a character.
Utf8Bytes(c) ==
  CASE c = "{" -> <<123>>
    [] c = "}" -> <<125>>
    [] c = "[" -> <<91>>
    [] c = "]" -> <<93>>
    [] c = "=" -> <<61>>
    [] c = "v" -> <<118>>
    [] c = "U+00E9" -> <<195, 169>>

\* What fs.writeFile(path, text) stores: the UTF-8 bytes of the text.
RECURSIVE Utf8Encode(_)
Utf8Encode(text) ==
  IF text = <<>> THEN <<>>
  ELSE Utf8Bytes(Head(text)) \o Utf8Encode(Tail(text))

\* Decoding "utf8": a byte sequence of a character gives the character, a
\* byte that begins none gives U+FFFD.
RECURSIVE Utf8Decode(_)
Utf8Decode(bytes) ==
  IF bytes = <<>> THEN <<>>
  ELSE LET starts == {c \in Chars :
                        /\ Len(Utf8Bytes(c)) <= Len(bytes)
                        /\ SubSeq(bytes, 1, Len(Utf8Bytes(c))) = Utf8Bytes(c)}
       IN  IF starts = {}
           THEN <<ReplacementChar>> \o Utf8Decode(Tail(bytes))
           ELSE LET c == CHOOSE x \in starts : TRUE
                IN  <<c>> \o Utf8Decode(SubSeq(bytes, Len(Utf8Bytes(c)) + 1,
                                               Len(bytes)))

\* The texts stored in files: JSON, TOML, text that is neither, text with a
\* character outside ASCII, and the empty text.
StoredTexts ==
  [p \in {"settings.json", "settings.toml", "broken.json", "accents.toml",
          "empty.json"} |->
     CASE p = "settings.json" -> <<"{", "v", "}">>
       [] p = "settings.toml" -> <<"[", "v", "]", "v", "=", "v">>
       [] p = "broken.json" -> <<"{", "[", "v">>
       [] p = "accents.toml" -> <<"v", "=", "U+00E9">>
       [] p = "empty.json" -> <<>>]

\* Paths fs.readFile cannot read, and the error it rejects with.
Unreadable ==
  [p \in {"nonexistent.json", "directory"} |->
     CASE p = "nonexistent.json" ->
            ErrorObj("ENOENT: no such file or directory")
       [] p = "directory" ->
            ErrorObj("EISDIR: illegal operation on a directory")]

\* A file that was not written as text: its bytes are no UTF-8.
OtherFiles == [p \in {"image.bin"} |-> <<195, 123>>]

Paths == DOMAIN StoredTexts \cup DOMAIN OtherFiles \cup DOMAIN Unreadable

\* The bytes of the readable files.
Disk ==
  [p \in DOMAIN StoredTexts \cup DOMAIN OtherFiles |->
     IF p \in DOMAIN StoredTexts THEN Utf8Encode(StoredTexts[p])
     ELSE OtherFiles[p]]

\* How the promise of fs.readFile(filePath, "utf8") settles.
ReadFile(filePath) ==
  IF filePath \in DOMAIN Unreadable
  THEN [rejected |-> TRUE, error |-> Unreadable[filePath], content |-> <<>>]
  ELSE [rejected |-> FALSE, error |-> NoError,
        content |-> Utf8Decode(Disk[filePath])]

\* The texts JSON.parse accepts.
JsonTexts == {<<"{", "v", "}">>}

\* Mutant of AfterReadFile: the content is parsed as JSON before it is
\* returned.
AfterReadFile_parsed(load, outcome) ==
  IF outcome.rejected
  THEN [load EXCEPT !.status = "rejected", !.error = outcome.error]
  ELSE IF outcome.content \in JsonTexts
       THEN [load EXCEPT !.status = "resolved", !.text = outcome.content]
       ELSE [load EXCEPT !.status = "rejected",
                         !.error = ErrorObj("Unexpected token")]

\* loadSettingsFromFile after its await: the rejection of fs.readFile is the
\* rejection of the call, its content is what the call returns.
AfterReadFile(load, outcome) ==
  IF outcome.rejected
  THEN [load EXCEPT !.status = "rejected", !.error = outcome.error]
  ELSE [load EXCEPT !.status = "resolved", !.text = outcome.content]

\* loadSettingsFromFile(filePath), up to its await.
LoadSettingsFromFile(filePath) ==
  /\ fileLoads' = Append(fileLoads, [path |-> filePath, status |-> "reading",
                                     text |-> <<>>, error |-> NoError])
  /\ UNCHANGED <<loads, fetches, mergeVars, builderVars, constructVars, archives>>

\* The promise of fs.readFile settles and loadSettingsFromFile returns.
ReadFileSettles(l) ==
  /\ l \in DOMAIN fileLoads
  /\ fileLoads[l].status = "reading"
  /\ fileLoads' = [fileLoads EXCEPT ![l] = AfterReadFile(@, ReadFile(@.path))]
  /\ UNCHANGED <<loads, fetches, mergeVars, builderVars, constructVars, archives>>

\* loadSettingsFromFile alone: calls on any paths, awaited or not.
FileNext ==
  \/ /\ Len(fileLoads) < MaxFileLoads
     /\ \E p \in Paths : LoadSettingsFromFile(p)
  \/ \E l \in DOMAIN fileLoads : ReadFileSettles(l)

\* ----------------------------------------------------------- Builder: Spec

\* The engine-side state of a Builder that was just made.
NewEngineState ==
  [intent |-> "none", ingredients |-> <<>>, hasSigned |-> FALSE,
   signedWith |-> [intent |-> "none", parents |-> 0]]

\* The settings argument left out, and the settings string undefined.
NoSettings == [kind |-> "none", text |-> "", object |-> <<>>]
NoSettingsStr == [live |-> FALSE, defined |-> FALSE, text |-> ""]

\* The Builder the run starts with: Builder.new().
FirstBuilder ==
  [handle |-> TheHandle, how |-> "new", given |-> NoSettings,
   fn |-> "builderNew", passed |-> NoSettingsStr, held |-> NoSettingsStr,
   status |-> "ready", saved |-> NewEngineState]

\* The caller's settings object at the start.
InitialSettings ==
  [s \in {"verify"} |-> [k \in {"verify_trust"} |-> "true"]]

BuilderInit ==
  /\ builder = TheHandle
  /\ ops = <<>>
  /\ engineCalls = <<>>
  /\ outstanding = {}
  /\ outputs = InitOutputs
  /\ intent = "none"
  /\ ingredients = <<>>
  /\ hasSigned = FALSE
  /\ signedWith = [intent |-> "none", parents |-> 0]
  /\ instances = <<FirstBuilder>>
  /\ callerSettings = InitialSettings
  /\ archives = [a \in {TheArchive} |-> NoArchive]

SettingsIdle ==
  /\ frags = <<>>
  /\ merged = <<>>
  /\ refs = <<>>
  /\ json = <<>>
  /\ sphase = "input"
  /\ configs = <<>>
  /\ loads = <<>>
  /\ fetches = <<>>
  /\ fileLoads = <<>>

Init == BuilderInit /\ SettingsIdle

Next ==
  \/ /\ Len(ops) + Len(loads) < MaxOps
     /\ \/ \E i \in IntentInputs, ok \in BOOLEAN : SetIntent(i, ok)
        \/ \E ok \in BOOLEAN : AddAction(ok)
        \/ \E ok \in BOOLEAN : AddAssertion(ok)
        \/ AddResource
        \/ \E rel \in Relationships, hasAsset \in BOOLEAN :
             AddIngredient(rel, hasAsset)
        \/ \E rel \in Relationships, ok \in BOOLEAN :
             AddIngredientFromReader(rel, ok)
        \/ ToArchive
        \/ \E out \in Outputs : \E r \in CoarseOutcomes(out), a \in Assets :
             Sign(out, r, a)
        \/ \E out \in Outputs : \E r \in CoarseOutcomes(out), a \in Assets :
             SignFile(out, r, a)
        \/ \E out \in Outputs : SignConfigAsync(out)
        \/ \E signer \in {"callback", "identity"}, out \in Outputs :
             SignAsync(signer, TheSource, out)
  \/ \E i \in outstanding : \E r \in CoarseOutcomes(ops[i].output) :
       SettleSign(i, r)
  \/ \E i \in outstanding, ok \in BOOLEAN : SettleIngredient(i, ok)
  \/ \E i \in outstanding, ok \in BOOLEAN : SettleVoid(i, ok)
  \/ /\ Len(ops) + Len(loads) < MaxOps
     /\ \E url \in Urls : LoadSettingsFromUrl(url)
  \/ \E l \in DOMAIN loads, r \in FetchOutcomes : FetchSettles(l, r)
  \/ \E l \in DOMAIN loads :
       \E r \in TextOutcomes(loads[l].fetched.response) : TextSettles(l, r)

FileSpec == Init /\ [][FileNext]_vars

\* The whole Builder, and loadSettingsFromUrl beside it: every operation,
\* issued in any order, awaited or not.
Spec == Init /\ [][Next]_vars

\* The sign operations alone, with every shape of answer the engine can give.
SignNext ==
  \/ /\ Len(ops) < MaxSigns
     /\ \/ \E out \in Outputs, r \in SignOutcomes, a \in Assets : Sign(out, r, a)
        \/ \E out \in Outputs, r \in SignOutcomes, a \in Assets :
             SignFile(out, r, a)
        \/ \E out \in Outputs : SignConfigAsync(out)
        \/ \E signer \in {"callback", "identity"}, out \in Outputs :
             SignAsync(signer, TheSource, out)
  \/ \E i \in outstanding, r \in SignOutcomes : SettleSign(i, r)

SignSpec == Init /\ [][SignNext]_vars

\* Intent and ingredients: setIntent, the two ways to add an ingredient, and
\* a sign, where the engine applies the rules of the intent.
IngredientNext ==
  \/ /\ Len(ops) < MaxIngredientOps
     /\ \/ \E i \in Intents : SetIntent(i, TRUE)
        \/ \E rel \in Relationships, hasAsset \in BOOLEAN :
             AddIngredient(rel, hasAsset)
        \/ \E rel \in Relationships, ok \in BOOLEAN :
             AddIngredientFromReader(rel, ok)
        \/ \E r \in CoarseOutcomes("outFile"), a \in Assets :
             Sign("outFile", r, a)
  \/ \E i \in outstanding, ok \in BOOLEAN : SettleIngredient(i, ok)

IngredientSpec == Init /\ [][IngredientNext]_vars


\* Operations in DispatchSpec.
MaxDispatch == 2

\* The operations that choose an engine entry point by their arguments:
\* signAsync with any signer and source, addIngredient with or without asset.
DispatchNext ==
  \/ /\ Len(ops) < MaxDispatch
     /\ \/ \E signer \in Signers, input \in Sources, out \in Outputs :
             SignAsync(signer, input, out)
        \/ \E rel \in Relationships, hasAsset \in BOOLEAN :
             AddIngredient(rel, hasAsset)
  \/ \E i \in outstanding : \E r \in CoarseOutcomes(ops[i].output) :
       SettleSign(i, r)
  \/ \E i \in outstanding, ok \in BOOLEAN : SettleIngredient(i, ok)

DispatchSpec == Init /\ [][DispatchNext]_vars


\* =============================================================== Settings

\* The value undefined of an option (a key that is there without a value).
Undefined == "undefined"

Sections == {"trust", "cawg_trust", "verify", "builder"}

\* The options of a section, under their names in the engine's format.
TrustKeys ==
  {"verify_trust_list", "user_anchors", "trust_anchors", "trust_config",
   "allowed_list"}
VerifyKeys ==
  {"verify_after_reading", "verify_after_sign", "verify_trust",
   "verify_timestamp_trust", "ocsp_fetch", "remote_manifest_fetch",
   "skip_ingredient_conflict_resolution", "strict_v1_validation"}
BuilderKeys == {"generate_c2pa_archive"}
AllKeys == TrustKeys \cup VerifyKeys \cup BuilderKeys

\* The field of TrustConfig / VerifyConfig an option is read from.
FieldOf(k) ==
  CASE k = "verify_trust_list" -> "verifyTrustList"
    [] k = "user_anchors" -> "userAnchors"
    [] k = "trust_anchors" -> "trustAnchors"
    [] k = "trust_config" -> "trustConfig"
    [] k = "allowed_list" -> "allowedList"
    [] k = "verify_after_reading" -> "verifyAfterReading"
    [] k = "verify_after_sign" -> "verifyAfterSign"
    [] k = "verify_trust" -> "verifyTrust"
    [] k = "verify_timestamp_trust" -> "verifyTimestampTrust"
    [] k = "ocsp_fetch" -> "ocspFetch"
    [] k = "remote_manifest_fetch" -> "remoteManifestFetch"
    [] k = "skip_ingredient_conflict_resolution" ->
         "skipIngredientConflictResolution"
    [] k = "strict_v1_validation" -> "strictV1Validation"
TrustFields == {FieldOf(k) : k \in TrustKeys}
VerifyFields == {FieldOf(k) : k \in VerifyKeys}

\* config.<field>: undefined when the field is not there.
Field(config, f) == IF f \in DOMAIN config THEN config[f] ELSE Undefined

\* An object is a function from the keys it has; {} has none.
EmptyObject == [k \in {} |-> Undefined]
OneSection(s, options) == [x \in {s} |-> options]

createTrustSettings(trustConfig) ==
  OneSection("trust", [k \in TrustKeys |-> Field(trustConfig, FieldOf(k))])

\* Mutant of createCawgTrustSettings: the options are put under trust.
createCawgTrustSettings_trustSection(trustConfig) ==
  OneSection("trust", [k \in TrustKeys |-> Field(trustConfig, FieldOf(k))])

createCawgTrustSettings(trustConfig) ==
  OneSection("cawg_trust",
             [k \in TrustKeys |-> Field(trustConfig, FieldOf(k))])

createVerifySettings(verifyConfig) ==
  OneSection("verify", [k \in VerifyKeys |-> Field(verifyConfig, FieldOf(k))])

\* Mutant of Spread: a key of both objects keeps the value of the first.
Spread_firstWins(a, b) ==
  [k \in DOMAIN a \cup DOMAIN b |-> IF k \in DOMAIN a THEN a[k] ELSE b[k]]

\* { ...a, ...b }: the keys of both, b's value for a key of both.
Spread(a, b) ==
  [k \in DOMAIN a \cup DOMAIN b |-> IF k \in DOMAIN b THEN b[k] ELSE a[k]]

\* merged.<s>, spread: undefined spreads no key.
SectionOf(obj, s) == IF s \in DOMAIN obj THEN obj[s] ELSE EmptyObject

\* merged.<s> = options.
WithSection(obj, s, options) ==
  [x \in DOMAIN obj \cup {s} |-> IF x = s THEN options ELSE obj[x]]

\* The value undefined where a fragment should have a section; written as a
\* mapping so that it compares with sections.
UndefinedSection == [undefined |-> Undefined]

\* if (setting.<s>): the key is there and its value is an object.
Has(setting, s) == s \in DOMAIN setting /\ setting[s] # UndefinedSection

\* Mutant of MergeOne: every top-level key of the fragment is merged.
MergeOne_everyKey(acc, setting) ==
  [x \in DOMAIN acc \cup DOMAIN setting |->
     Spread(SectionOf(acc, x), SectionOf(setting, x))]

\* One turn of the loop of mergeSettings: the four sections in turn.
MergeOne(acc, setting) ==
  LET t == IF Has(setting, "trust")
           THEN WithSection(acc, "trust",
                            Spread(SectionOf(acc, "trust"), setting["trust"]))
           ELSE acc
      c == IF Has(setting, "cawg_trust")
           THEN WithSection(t, "cawg_trust",
                            Spread(SectionOf(t, "cawg_trust"),
                                   setting["cawg_trust"]))
           ELSE t
      v == IF Has(setting, "verify")
           THEN WithSection(c, "verify",
                            Spread(SectionOf(c, "verify"), setting["verify"]))
           ELSE c
  IN  IF Has(setting, "builder")
      THEN WithSection(v, "builder",
                       Spread(SectionOf(v, "builder"), setting["builder"]))
      ELSE v

RECURSIVE MergeFrom(_, _, _)
MergeFrom(acc, settings, i) ==
  IF i > Len(settings) THEN acc
  ELSE MergeFrom(MergeOne(acc, settings[i]), settings, i + 1)

\* Mutant of mergeSettings: merged starts with a builder section.
mergeSettings_defaults(settings) ==
  MergeFrom(OneSection("builder", EmptyObject), settings, 1)

\* Mutant of mergeSettings: only the first two arguments are merged.
mergeSettings_firstTwo(settings) ==
  MergeFrom(EmptyObject,
            SubSeq(settings, 1, IF Len(settings) < 2 THEN Len(settings) ELSE 2),
            1)

mergeSettings(settings) == MergeFrom(EmptyObject, settings, 1)

\* Which object a value is: one made by the call, or the caller's i-th
\* fragment (s = "object") or its section s.
NewObject == <<0, "new">>
InputObject(i, s) == <<i, s>>

\* Mutant of ResultRefs: a section only one fragment has is not copied.
ResultRefs_shared(settings) ==
  [x \in {"object"} \cup DOMAIN mergeSettings(settings) |->
     IF x # "object"
        /\ Cardinality({i \in DOMAIN settings : Has(settings[i], x)}) = 1
     THEN InputObject(CHOOSE i \in DOMAIN settings : Has(settings[i], x), x)
     ELSE NewObject]

\* The objects of the result: merged is a new object ({}), and each section
\* of it is the new object an object literal with spreads makes.
ResultRefs(settings) ==
  [x \in {"object"} \cup DOMAIN mergeSettings(settings) |-> NewObject]

\* Mutant of settingsToJson: a key whose value is undefined is written too.
settingsToJson_keepUnset(settings) == settings

\* JSON.parse(settingsToJson(settings)): JSON.stringify leaves out every key
\* whose value is undefined.
settingsToJson(settings) ==
  [s \in DOMAIN settings |->
     [k \in {x \in DOMAIN settings[s] : settings[s][x] # Undefined} |->
        settings[s][k]]]

\* ------------------------------------------------------ Settings: inputs

\* Fragments handed to one mergeSettings call in MergeSpec.
MaxFrags == 3

\* Fields a TrustConfig / VerifyConfig given to a create* function carries.
MaxCfgFields == 2

\* The value the i-th fragment gives to the options it sets.
Val(i) == ToString(i)

\* The options the caller's own fragments use in a section.
RawKeys(s) ==
  CASE s \in {"trust", "cawg_trust"} -> {"verify_trust_list", "user_anchors"}
    [] s = "verify" -> {"verify_after_reading", "verify_trust"}
    [] s = "builder" -> BuilderKeys

\* The fragments the caller writes as the i-th argument: {}, or one section
\* with each option of it missing, undefined or set, or two sections with
\* their options set.
RawFrags(i) ==
  {EmptyObject}
    \cup UNION {{OneSection(s, o) :
                   o \in UNION {[D -> {Val(i), Undefined}] :
                                  D \in SUBSET RawKeys(s)}} :
                s \in Sections}
    \cup {[s \in P |-> [k \in RawKeys(s) |-> Val(i)]] :
            P \in {X \in SUBSET Sections : Cardinality(X) = 2}}

\* The configurations given to a create* function as the i-th argument.
Configs(fields, i) ==
  UNION {[D -> {Val(i), Undefined}] :
           D \in {X \in SUBSET fields : Cardinality(X) <= MaxCfgFields}}

\* --------------------------------------------------- Settings: the calls

\* How a fragment was made: by which function, from which configuration
\* (none for a fragment the caller wrote), and the caller's configuration
\* object as the function left it.
MadeBy(fn, cfg, after) == [fn |-> fn, config |-> cfg, after |-> after]

\* The caller writes a fragment.
AddFragment(f) ==
  /\ sphase = "input"
  /\ frags' = Append(frags, f)
  /\ configs' = Append(configs, MadeBy("literal", EmptyObject, EmptyObject))
  /\ UNCHANGED <<merged, refs, json, sphase,
               loadVars, builderVars, constructVars, archives>>

\* The caller makes a fragment with createTrustSettings.
CreateTrust(cfg) ==
  /\ sphase = "input"
  /\ frags' = Append(frags, createTrustSettings(cfg))
  /\ configs' = Append(configs, MadeBy("createTrustSettings", cfg, cfg))
  /\ UNCHANGED <<merged, refs, json, sphase,
               loadVars, builderVars, constructVars, archives>>

\* The caller makes a fragment with createCawgTrustSettings.
CreateCawgTrust(cfg) ==
  /\ sphase = "input"
  /\ frags' = Append(frags, createCawgTrustSettings(cfg))
  /\ configs' = Append(configs, MadeBy("createCawgTrustSettings", cfg, cfg))
  /\ UNCHANGED <<merged, refs, json, sphase,
               loadVars, builderVars, constructVars, archives>>

\* The caller makes a fragment with createVerifySettings.
CreateVerify(cfg) ==
  /\ sphase = "input"
  /\ frags' = Append(frags, createVerifySettings(cfg))
  /\ configs' = Append(configs, MadeBy("createVerifySettings", cfg, cfg))
  /\ UNCHANGED <<merged, refs, json, sphase,
               loadVars, builderVars, constructVars, archives>>

\* merged = mergeSettings(...frags)
CallMerge ==
  /\ sphase = "input"
  /\ merged' = mergeSettings(frags)
  /\ refs' = ResultRefs(frags)
  /\ sphase' = "merged"
  /\ UNCHANGED <<frags, json, configs,
               loadVars, builderVars, constructVars, archives>>

\* obj with obj.<s>.<k> = v
WithOption(obj, s, k, v) ==
  WithSection(obj, s,
              [x \in DOMAIN obj[s] \cup {k} |-> IF x = k THEN v ELSE obj[s][x]])

\* The caller writes merged.<s>.<k> = v after the call: the write is seen
\* through every reference to the object that merged.<s> is.
WriteResult(s, k, v) ==
  /\ sphase = "merged"
  /\ s \in DOMAIN merged
  /\ merged' = WithOption(merged, s, k, v)
  /\ frags' = [i \in DOMAIN frags |->
                IF refs[s] = InputObject(i, s)
                THEN WithOption(frags[i], s, k, v)
                ELSE frags[i]]
  /\ UNCHANGED <<refs, json, sphase, configs,
               loadVars, builderVars, constructVars, archives>>

\* json = JSON.parse(settingsToJson(merged))
CallToJson ==
  /\ sphase = "merged"
  /\ json' = settingsToJson(merged)
  /\ sphase' = "json"
  /\ UNCHANGED <<frags, merged, refs, configs,
               loadVars, builderVars, constructVars, archives>>

\* mergeSettings on fragments the caller wrote.
MergeNext ==
  \/ /\ Len(frags) < MaxFrags
     /\ \E f \in RawFrags(Len(frags) + 1) : AddFragment(f)
  \/ CallMerge
  \/ CallToJson

MergeSpec == Init /\ [][MergeNext]_vars

\* Objects handed to one mergeSettings call in ObjectSpec.
MaxObjectFrags == 2

\* A top-level key that is not a section, and its content.
OtherKeys == {"core"}
OtherOptions(i) == [k \in {"debug"} |-> Val(i)]

\* obj with the key x and the value v added.
WithKey(obj, x, v) ==
  [y \in DOMAIN obj \cup {x} |-> IF y = x THEN v ELSE obj[y]]

\* The objects the caller hands over as the i-th argument: a fragment of one
\* or two sections with their options set, or {}; one of at most one section
\* with another top-level key besides; {} or a trust fragment with a section
\* whose value is undefined.
ObjectFrags(i) ==
  LET plain ==
        {EmptyObject}
          \cup {[s \in P |-> [k \in RawKeys(s) |-> Val(i)]] :
                  P \in {X \in SUBSET Sections : Cardinality(X) \in {1, 2}}}
  IN  plain
        \cup {WithKey(f, x, OtherOptions(i)) :
                f \in {g \in plain : Cardinality(DOMAIN g) <= 1},
                x \in OtherKeys}
        \cup {WithKey(f, s, UndefinedSection) :
                f \in {g \in plain : DOMAIN g \subseteq {"trust"}},
                s \in Sections}

\* The value the caller writes into the result.
Written == "written"

\* mergeSettings on any objects, and the caller's writes into the result.
ObjectNext ==
  \/ /\ Len(frags) < MaxObjectFrags
     /\ \E f \in ObjectFrags(Len(frags) + 1) : AddFragment(f)
  \/ CallMerge
  \/ \E s \in Sections : \E k \in RawKeys(s) : WriteResult(s, k, Written)

ObjectSpec == Init /\ [][ObjectNext]_vars

\* mergeSettings(A, B) with A written by the caller and B made by a create*
\* function.
FactoryNext ==
  \/ /\ Len(frags) = 0
     /\ \E f \in RawFrags(1) : AddFragment(f)
  \/ /\ Len(frags) = 1
     /\ \/ \E cfg \in Configs(TrustFields, 2) : CreateTrust(cfg)
        \/ \E cfg \in Configs(TrustFields, 2) : CreateCawgTrust(cfg)
        \/ \E cfg \in Configs(VerifyFields, 2) : CreateVerify(cfg)
  \/ CallMerge
  \/ CallToJson

FactorySpec == Init /\ [][FactoryNext]_vars

\* ==================================================== Builder: construction

\* Builders made in one run of ConstructSpec, the first one included.
MaxBuilders == 3

\* Builders in one run of ArchiveSpec or ConcurrentSpec, the first one
\* included.
MaxSideBuilders == 2

\* JSON.stringify of an option mapping and of a settings object: the keys
\* whose value is undefined are left out.
RECURSIVE JsonMembers(_, _)
JsonMembers(options, keys) ==
  IF keys = {} THEN ""
  ELSE LET k == CHOOSE x \in keys : TRUE
           rest == JsonMembers(options, keys \ {k})
       IN  "\"" \o k \o "\":\"" \o options[k] \o "\""
             \o (IF rest = "" THEN "" ELSE "," \o rest)

JsonOptions(options) ==
  "{" \o JsonMembers(options, {k \in DOMAIN options : options[k] # Undefined})
      \o "}"

RECURSIVE JsonSections(_, _)
JsonSections(obj, keys) ==
  IF keys = {} THEN ""
  ELSE LET s == CHOOSE x \in keys : TRUE
           rest == JsonSections(obj, keys \ {s})
       IN  "\"" \o s \o "\":" \o JsonOptions(obj[s])
             \o (IF rest = "" THEN "" ELSE "," \o rest)

JsonStringify(obj) == "{" \o JsonSections(obj, DOMAIN obj) \o "}"

\* The settings arguments of the caller: left out, a string (the empty
\* string, or a TOML text), or the caller's settings object as it is at the
\* call.
TomlText == "[verify]\nverify_trust = false"
SettingsArgs ==
  {NoSettings}
    \cup {[kind |-> "string", text |-> t, object |-> <<>>] :
            t \in {"", TomlText}}
    \cup {[kind |-> "object", text |-> "", object |-> callerSettings]}

\* Mutant of SettingsStr: the object is handed over as it is, and is read
\* when the engine needs it.
SettingsStr_live(settings) ==
  CASE settings.kind = "none" -> NoSettingsStr
    [] settings.kind = "string" ->
         IF settings.text = "" THEN NoSettingsStr
         ELSE [live |-> FALSE, defined |-> TRUE, text |-> settings.text]
    [] settings.kind = "object" ->
         [live |-> TRUE, defined |-> TRUE,
          text |-> JsonStringify(settings.object)]

\* settings ? (typeof settings === "string" ? settings
\*                                          : JSON.stringify(settings))
\*          : undefined
SettingsStr(settings) ==
  CASE settings.kind = "none" -> NoSettingsStr
    [] settings.kind = "string" ->
         IF settings.text = "" THEN NoSettingsStr
         ELSE [live |-> FALSE, defined |-> TRUE, text |-> settings.text]
    [] settings.kind = "object" ->
         [live |-> FALSE, defined |-> TRUE,
          text |-> JsonStringify(settings.object)]

\* Engine: a Builder is configured by the settings string it was made with.
EngineHolds(settingsStr) == settingsStr

\* The handle of the k-th Builder.
HandleNo(k) == "handle" \o ToString(k)

\* A Builder made by the engine call fn with the settings string of settings.
Made(how, fn, settings, status, state) ==
  [handle |-> HandleNo(Len(instances) + 1), how |-> how, given |-> settings,
   fn |-> fn, passed |-> SettingsStr(settings),
   held |-> EngineHolds(SettingsStr(settings)),
   status |-> status, saved |-> state]

\* Builder.new(settings)
BuilderNew(settings) ==
  /\ instances' = Append(instances,
       Made("new", "builderNew", settings, "ready", NewEngineState))
  /\ UNCHANGED <<callerSettings, archives, builderVars, mergeVars, loadVars>>

\* The manifest definitions given to withJson: one JSON.stringify accepts,
\* and one it throws on.
ManifestJsons == {"definition", "circular"}

\* Builder.withJson(definition, settings): when JSON.stringify throws, no
\* engine call is made and no Builder.
BuilderWithJson(definition, settings) ==
  /\ instances' = Append(instances,
       IF definition = "circular"
       THEN [Made("withJson", "none", NoSettings, "failed", NewEngineState)
               EXCEPT !.given = settings]
       ELSE Made("withJson", "builderWithJson", settings, "ready",
                 NewEngineState))
  /\ UNCHANGED <<callerSettings, archives, builderVars, mergeVars, loadVars>>

\* Engine: the Builder made from an archive has the ingredients the archive
\* holds, in their order.
EngineReadArchive(archive) ==
  [NewEngineState EXCEPT !.ingredients = archive.ingredients]

\* Builder.fromArchive(asset, settings), up to its await: the settings string
\* is made and builderFromArchive is called.
BuilderFromArchive(settings) ==
  /\ instances' = Append(instances,
       Made("fromArchive", "builderFromArchive", settings, "pending",
            NewEngineState))
  /\ UNCHANGED <<callerSettings, archives, builderVars, mergeVars, loadVars>>

\* Mutant of FromArchiveSettles: the Builder returned is a new, empty one.
FromArchiveSettles_empty(k, ok) ==
  /\ k \in DOMAIN instances
  /\ instances[k].status = "pending"
  /\ ok => archives[TheArchive].written
  /\ instances' = [instances EXCEPT ![k].status =
                                      IF ok THEN "ready" ELSE "failed"]
  /\ UNCHANGED <<callerSettings, archives, builderVars, mergeVars, loadVars>>

\* The promise of builderFromArchive settles: the Builder wraps the handle
\* the engine made from the archive, or fromArchive is rejected (it is when
\* the asset holds no archive).
FromArchiveSettles(k, ok) ==
  /\ k \in DOMAIN instances
  /\ instances[k].status = "pending"
  /\ ok => archives[TheArchive].written
  /\ instances' =
       [instances EXCEPT ![k].status = IF ok THEN "ready" ELSE "failed",
                         ![k].saved = IF ok
                                      THEN EngineReadArchive(archives[TheArchive])
                                      ELSE @]
  /\ UNCHANGED <<callerSettings, archives, builderVars, mergeVars, loadVars>>

\* The caller changes an option of its settings object; a settings value
\* that is the object itself changes with it.
MutateSettings(v) ==
  /\ callerSettings["verify"]["verify_trust"] # v
  /\ callerSettings' = WithOption(callerSettings, "verify", "verify_trust", v)
  /\ instances' =
       [k \in DOMAIN instances |->
          IF instances[k].held.live
          THEN [instances[k] EXCEPT
                  !.held.text = JsonStringify(callerSettings')]
          ELSE instances[k]]
  /\ UNCHANGED <<archives, builderVars, mergeVars, loadVars>>

\* The instance whose Builder the operations are issued on.
InFocus == CHOOSE k \in DOMAIN instances : instances[k].handle = builder

\* The caller goes on with another of its Builders: from here on the
\* operations are issued on it, and the engine-side state is its own.
Focus(k) ==
  /\ k \in DOMAIN instances
  /\ instances[k].status = "ready"
  /\ instances[k].handle # builder
  /\ builder' = instances[k].handle
  /\ intent' = instances[k].saved.intent
  /\ ingredients' = instances[k].saved.ingredients
  /\ hasSigned' = instances[k].saved.hasSigned
  /\ signedWith' = instances[k].saved.signedWith
  /\ instances' =
       [instances EXCEPT ![InFocus].saved =
          [intent |-> intent, ingredients |-> ingredients,
           hasSigned |-> hasSigned, signedWith |-> signedWith]]
  /\ UNCHANGED <<ops, engineCalls, outstanding, outputs, callerSettings,
                 archives, mergeVars, loadVars>>

\* Operations on Builders in ConstructSpec.
MaxConstructOps == 1

\* Construction: Builders made in the three ways with any settings argument,
\* the caller changing its settings object in between, and a toArchive on
\* the first Builder.
ConstructNext ==
  \/ /\ Len(instances) < MaxBuilders
     /\ \E settings \in SettingsArgs :
          \/ BuilderNew(settings)
          \/ \E definition \in ManifestJsons :
               BuilderWithJson(definition, settings)
          \/ BuilderFromArchive(settings)
  \/ \E k \in DOMAIN instances, ok \in BOOLEAN : FromArchiveSettles(k, ok)
  \/ \E v \in {"true", "false"} : MutateSettings(v)
  \/ /\ Len(ops) < MaxConstructOps
     /\ ToArchive
  \/ \E i \in outstanding, ok \in BOOLEAN : SettleVoid(i, ok)

ConstructSpec == Init /\ [][ConstructNext]_vars

\* Operations on Builders in ArchiveSpec.
MaxArchiveOps == 3

\* The title in the definition of an ingredient of a relationship.
TitleOf(rel) == IF rel = "parentOf" THEN "parent.jpg" ELSE "component.jpg"
Titles(ings) == [n \in DOMAIN ings |-> TitleOf(ings[n])]

\* getManifestDefinition().ingredients of the k-th Builder.
IngredientsOf(k) ==
  IF instances[k].handle = builder THEN ingredients
  ELSE instances[k].saved.ingredients

\* Archives: ingredients are added to a Builder, the Builder is written to
\* an archive, and Builders are made from the archive.
ArchiveNext ==
  \/ /\ Len(ops) < MaxArchiveOps
     /\ \/ \E rel \in Relationships, hasAsset \in BOOLEAN :
             AddIngredient(rel, hasAsset)
        \/ ToArchive
  \/ \E i \in outstanding, ok \in BOOLEAN : SettleIngredient(i, ok)
  \/ \E i \in outstanding, ok \in BOOLEAN : SettleVoid(i, ok)
  \/ /\ Len(instances) < MaxSideBuilders
     /\ BuilderFromArchive(NoSettings)
  \/ \E k \in DOMAIN instances, ok \in BOOLEAN : FromArchiveSettles(k, ok)
  \/ \E k \in DOMAIN instances : Focus(k)

ArchiveSpec == Init /\ [][ArchiveNext]_vars

\* Asynchronous signs in ConcurrentSpec.
MaxConcurrent == 2

\* What the engine answers to a sign, each call its own: to a buffer a
\* manifest and a signed asset, to a path a manifest, or a rejection.
Answers == {[manifest |-> "m1", signedAsset |-> "a1"],
            [manifest |-> "m2", signedAsset |-> "a2"]}
ConcurrentOutcomes(out) ==
  (IF out \in Buffers
   THEN {Obj(r.manifest, r.signedAsset) : r \in Answers}
   ELSE {Buf(r.manifest) : r \in Answers})
    \cup {Err(EngineError)}

\* Asynchronous signs, on one Builder or on several, settling in any order.
ConcurrentNext ==
  \/ /\ Len(instances) < MaxSideBuilders
     /\ BuilderNew(NoSettings)
  \/ \E k \in DOMAIN instances : Focus(k)
  \/ /\ Len(ops) < MaxConcurrent
     /\ \/ \E out \in Destinations : SignAsync("callback", TheSource, out)
        \/ \E out \in Destinations : SignConfigAsync(out)
  \/ \E i \in outstanding : \E r \in ConcurrentOutcomes(ops[i].output) :
       SettleSign(i, r)

ConcurrentSpec == Init /\ [][ConcurrentNext]_vars

\* ================================================================ claims

IsAsyncSign(i) == ops[i].name \in AsyncSigns
IsSign(i) == ops[i].name \in SignNames
ToBuffer(i) ==
  ops[i].output \in Destinations /\ outputs[ops[i].output].hasBuffer
IsCombined(r) == ~IsError(r) /\ r.manifest # Absent /\ r.signedAsset # Absent
IsManifestOnly(r) == ~IsError(r) /\ r.bytes # Absent

\* Operation i settles in this step: it was pending, or not issued yet, and
\* is now resolved or rejected.
SettlesNow(i) ==
  /\ i \in DOMAIN ops'
  /\ ops'[i].status # "pending"
  /\ (i \in DOMAIN ops => ops[i].status = "pending")

\* C1: when the engine answers a signAsync or signConfigAsync to a buffer
\* destination with a combined result {manifest, signedAsset}, the promise
\* resolves with the manifest bytes of that result, and in the state in which
\* it resolves the destination's buffer holds the signedAsset bytes of that
\* same result.
C1_CombinedToBuffer ==
  [][\A i \in DOMAIN ops :
       (IsAsyncSign(i) /\ ToBuffer(i) /\ SettlesNow(i) /\ IsCombined(ops'[i].raw))
         => /\ ops'[i].status = "resolved"
            /\ ops'[i].value = Buf(ops'[i].raw.manifest)
            /\ outputs'[ops[i].output].buffer = ops'[i].raw.signedAsset]_vars

\* C1 witness: both asynchronous sign operations have resolved to a buffer
\* destination on a combined result.
C1_Witness ==
  \A n \in AsyncSigns :
    \E i \in DOMAIN ops :
      /\ ops[i].name = n /\ ToBuffer(i)
      /\ ops[i].status = "resolved" /\ IsCombined(ops[i].raw)

\* C2 (the claim as stated): an asynchronous sign whose engine result does
\* not fit the destination (a combined result for a file destination, a
\* manifest-only result for a buffer destination) fails; it never resolves.
C2_ShapeMismatchFails ==
  \A i \in DOMAIN ops :
    (/\ IsAsyncSign(i)
     /\ ops[i].status # "pending"
     /\ \/ ~ToBuffer(i) /\ IsCombined(ops[i].raw)
        \/ ToBuffer(i) /\ IsManifestOnly(ops[i].raw))
      => ops[i].status = "rejected"

\* C3: a sign operation that ends in failure (the engine's promise rejects
\* with the callback's or the engine's error, the engine throws, or the shape
\* of the result is rejected) leaves every destination object as it was.
C3_FailureLeavesBuffer ==
  [][\A i \in DOMAIN ops' :
       (ops'[i].name \in SignNames /\ SettlesNow(i) /\ ops'[i].status = "rejected")
         => outputs' = outputs]_vars

\* C3 witness: to a buffer destination, one asynchronous sign was rejected
\* for the shape of its result and one for the callback's error.
C3_Witness ==
  /\ \E i \in DOMAIN ops :
       /\ IsAsyncSign(i) /\ ToBuffer(i) /\ ops[i].status = "rejected"
       /\ ops[i].value = Err(UnexpectedResult)
  /\ \E i \in DOMAIN ops :
       /\ IsAsyncSign(i) /\ ToBuffer(i) /\ ops[i].status = "rejected"
       /\ ops[i].value = Err(CallbackError)


\* The i-th fragment carries option k of section s (with a value or with
\* undefined).
Carries(i, s, k) == s \in DOMAIN frags[i] /\ k \in DOMAIN frags[i][s]

\* The fragments that carry option k of section s.
Carriers(s, k) == {i \in DOMAIN frags : Carries(i, s, k)}

\* The last of a non-empty set of fragments.
LastOf(is) == CHOOSE i \in is : \A j \in is : j <= i

\* C4: in the result of mergeSettings every option that some fragment
\* carries is there with what the last fragment that carries it has for it:
\* an option of only one fragment keeps its value, an option of A and B has
\* B's, and of more than two fragments the last carrier decides.
C4_LastCarrierWins ==
  sphase = "merged" =>
    \A i \in DOMAIN frags :
      \A s \in DOMAIN frags[i] :
        \A k \in DOMAIN frags[i][s] :
          /\ s \in DOMAIN merged
          /\ k \in DOMAIN merged[s]
          /\ merged[s][k] = frags[LastOf(Carriers(s, k))][s][k]

\* C4 witness: three fragments were merged; one option is set by all three
\* and has the third one's value, another is set by the first alone and has
\* kept its value.
C4_Witness ==
  /\ sphase = "merged"
  /\ Len(frags) = 3
  /\ \E s \in Sections, k1, k2 \in AllKeys :
       /\ Carriers(s, k1) = {1, 2, 3}
       /\ Carriers(s, k2) = {1}
       /\ frags[1][s][k1] = Val(1) /\ frags[2][s][k1] = Val(2)
       /\ merged[s][k1] = Val(3)
       /\ merged[s][k2] = Val(1)

\* C5 (the claim as stated): an option k that fragment A sets to a value,
\* and that fragment B lacks or carries as undefined, has A's value in
\* mergeSettings(A, B), and settingsToJson of the result emits it.
C5_UnsetIsNeverSet ==
  (sphase = "json" /\ Len(frags) = 2) =>
    \A s \in Sections, k \in AllKeys :
      (/\ Carries(1, s, k) /\ frags[1][s][k] # Undefined
       /\ (Carries(2, s, k) => frags[2][s][k] = Undefined))
      => /\ merged[s][k] = frags[1][s][k]
         /\ s \in DOMAIN json /\ k \in DOMAIN json[s]
         /\ json[s][k] = frags[1][s][k]


IngredientFns == {"builderAddIngredientFromAsset", "builderAddIngredient"}
SignFns ==
  {"builderSign", "builderSignConfigAsync", "builderSignAsync",
   "builderIdentitySignAsync"}

\* The engine functions an operation may call.
FnsOf(name) ==
  CASE name = "setIntent" -> {"builderSetIntent"}
    [] name = "addAction" -> {"builderAddAction"}
    [] name = "addAssertion" -> {"builderAddAssertion"}
    [] name = "addResource" -> {"builderAddResource"}
    [] name = "addIngredient" -> IngredientFns
    [] name = "addIngredientFromReader" -> {"builderAddIngredientFromReader"}
    [] name = "toArchive" -> {"builderToArchive"}
    [] name \in SyncSigns -> {"builderSign"}
    [] name = "signConfigAsync" -> {"builderSignConfigAsync"}
    [] name = "signAsync" -> {"builderSignAsync", "builderIdentitySignAsync"}

C7_AtMostOneParent ==
  intent \in {"edit", "update"} => ParentCount(ingredients) <= 1

\* C7 (amended): the bound holds where the engine applies it, at a sign:
\* whenever a sign has succeeded, then in the state it signed, if the intent
\* was edit or update at most one ingredient had relationship parentOf.
C7_AtMostOneParentWhenSigned ==
  (signedWith.intent \in {"edit", "update"}) => signedWith.parents <= 1

\* C7 witness: a sign has succeeded under intent edit or update with a
\* parentOf ingredient held.
C7_Witness ==
  /\ hasSigned
  /\ signedWith.intent \in {"edit", "update"}
  /\ signedWith.parents = 1

\* C8 (the claim as stated): no sign operation issued after a sign has
\* succeeded reaches the engine.
C8_SignedIsTerminal ==
  \A j \in DOMAIN ops : (IsSign(j) /\ ops[j].afterSigned) => CallsOf(j) = {}

\* C8 (amended): the Builder keeps one handle for its whole life, and every
\* sign operation, also one issued after a sign has succeeded, is forwarded
\* to the engine with that handle, in exactly one engine call.
C8_EverySignForwarded ==
  /\ builder = TheHandle
  /\ \A j \in DOMAIN ops :
       IsSign(j)
         => /\ Cardinality(CallsOf(j)) = 1
            /\ \A c \in CallsOf(j) :
                 /\ engineCalls[c].fn \in SignFns
                 /\ engineCalls[c].handle = TheHandle

\* C8 witness: a sign issued after a successful sign has reached the engine
\* and has succeeded too.
C8_Witness ==
  \E j \in DOMAIN ops :
    /\ IsSign(j) /\ ops[j].afterSigned
    /\ CallsOf(j) # {} /\ ops[j].status = "resolved"

OutstandingSigns == {i \in outstanding : IsAsyncSign(i)}
PendingSigns == {i \in DOMAIN ops : IsAsyncSign(i) /\ ops[i].status = "pending"}

\* C9 (the claim as stated): the engine never has two sign calls of the
\* Builder outstanding at once.
C9_OneSignInFlight == Cardinality(OutstandingSigns) <= 1

\* C9 (amended): the wrapper holds no sign back: every asynchronous sign the
\* caller has issued and not yet seen settle is outstanding at the engine, so
\* a sign issued before an earlier one settled is in flight together with it.
C9_PendingSignsAreOutstanding == PendingSigns = OutstandingSigns

\* C9 witness: two asynchronous signs of the Builder are outstanding at once.
C9_Witness == Cardinality(OutstandingSigns) = 2

\* C10: the engine receives the calls in the order the caller issued the
\* operations: the i-th engine call on the handle is the call of the i-th
\* operation, whether or not earlier asynchronous operations have settled.
C10_CallsInIssueOrder ==
  /\ Len(engineCalls) = Len(ops)
  /\ \A i \in DOMAIN engineCalls :
       /\ engineCalls[i].seq = i
       /\ engineCalls[i].fn \in FnsOf(ops[i].name)

\* C10 witness: an operation was issued, and its call received, while an
\* earlier asynchronous operation was still pending.
C10_Witness ==
  \E i, j \in DOMAIN ops :
    /\ i < j /\ i \in outstanding
    /\ engineCalls[j].seq = j

\* C11: when the caller's signing function fails (the engine's promise then
\* rejects with that error), the promise of signAsync or signConfigAsync is
\* rejected with that very error value: it is not wrapped, not replaced, and
\* the operation is not resolved.
C11_CallbackErrorVerbatim ==
  \A i \in DOMAIN ops :
    (IsAsyncSign(i) /\ ops[i].status # "pending"
       /\ ops[i].raw = Err(CallbackError))
      => /\ ops[i].status = "rejected"
         /\ ops[i].value = ops[i].raw

\* C11 witness: a signAsync and a signConfigAsync, one to each kind of
\* destination, were rejected with the error of the caller's signing function.
C11_Witness ==
  /\ \E i \in DOMAIN ops :
       /\ ops[i].name = "signAsync" /\ ops[i].status = "rejected"
       /\ ops[i].value = Err(CallbackError) /\ ToBuffer(i)
  /\ \E i \in DOMAIN ops :
       /\ ops[i].name = "signConfigAsync" /\ ops[i].status = "rejected"
       /\ ops[i].value = Err(CallbackError) /\ ~ToBuffer(i)

\* C12 (the claim as stated): sign and signFile give the caller the manifest
\* bytes alone whatever the engine returns; with a buffer destination the
\* buffer then holds the signed asset of the engine's result.
C12_SyncSignsNormalise ==
  \A i \in DOMAIN ops :
    (ops[i].name \in SyncSigns /\ ops[i].status = "resolved")
      => /\ IsManifestOnly(ops[i].value)
         /\ (IsCombined(ops[i].raw) /\ ToBuffer(i))
              => ops[i].value = Buf(ops[i].raw.manifest)

\* C13 (the claim as stated): a sign operation to a file destination that
\* succeeds gives the caller manifest bytes only, never an object with asset
\* bytes, and leaves the caller's destination object as it was.
C13_FileSignReturnsManifest ==
  \A i \in DOMAIN ops :
    (IsSign(i) /\ ~ToBuffer(i) /\ ops[i].status = "resolved")
      => /\ IsManifestOnly(ops[i].value)
         /\ ops[i].value.signedAsset = Absent
         /\ outputs[ops[i].output] = InitOutputs[ops[i].output]

\* The operation issued in this step is a setIntent.
SetIntentNow ==
  /\ Len(ops') = Len(ops) + 1
  /\ ops'[Len(ops')].name = "setIntent"

\* C14: setIntent with a create intent that has no digital source type fails
\* with an error and leaves the recorded intent as it was; setIntent with a
\* well-formed intent records it, whatever ingredients the Builder holds.
C14_IntentShapeChecked ==
  [][SetIntentNow =>
       LET o == ops'[Len(ops')]
       IN  IF o.arg \in Intents
           THEN o.status = "resolved" /\ intent' = o.arg
           ELSE /\ o.status = "rejected" /\ IsError(o.value)
                /\ intent' = intent]_vars

\* C14 witness: after an intent was recorded, a setIntent with a create
\* intent without digital source type was rejected and the recorded intent
\* is still the earlier one.
C14_Witness ==
  /\ Len(ops) = 2
  /\ ops[1].name = "setIntent" /\ ops[1].status = "resolved"
  /\ ops[2].name = "setIntent" /\ ops[2].arg = MalformedIntent
  /\ ops[2].status = "rejected"
  /\ intent = ops[1].arg

\* The options of a configuration's fields: the keys a create* function would
\* return if it left out the fields its input does not have.
KeysGiven(config, keys) == {k \in keys : FieldOf(k) \in DOMAIN config}

\* C15 (the claim as stated): the section a create* function returns has a
\* key exactly for the fields its input configuration has; a field the input
\* lacks gives no key.
C15_AbsentFieldAbsentKey ==
  \A i \in DOMAIN frags :
    configs[i].fn # "literal" =>
      \A s \in DOMAIN frags[i] :
        DOMAIN frags[i][s] =
          KeysGiven(configs[i].config, TrustKeys \cup VerifyKeys)

\* C16: what settingsToJson writes has, in every section, no key whose value
\* is unset, and has every option that has a value, with that value.
C16_JsonOmitsUnset ==
  sphase = "json" =>
    \A s \in DOMAIN merged :
      /\ s \in DOMAIN json
      /\ \A k \in DOMAIN json[s] : json[s][k] # Undefined
      /\ \A k \in DOMAIN merged[s] :
           IF merged[s][k] = Undefined
           THEN k \notin DOMAIN json[s]
           ELSE k \in DOMAIN json[s] /\ json[s][k] = merged[s][k]

\* C16 witness: settingsToJson was applied to a merge result made with a
\* create* function, one section of which has an option with a value and an
\* option that is undefined.
C16_Witness ==
  /\ sphase = "json"
  /\ \E i \in DOMAIN configs : configs[i].fn # "literal"
  /\ \E s \in DOMAIN merged : \E k1, k2 \in DOMAIN merged[s] :
       /\ merged[s][k1] = Undefined /\ k1 \notin DOMAIN json[s]
       /\ merged[s][k2] # Undefined /\ json[s][k2] = merged[s][k2]

\* C17: mergeSettings(A), mergeSettings(A, {}) and mergeSettings({}, A) are
\* all A: the same sections, options and values.
C17_EmptyIsNeutral ==
  sphase = "merged" =>
    /\ Len(frags) = 1 => merged = frags[1]
    /\ (Len(frags) = 2 /\ frags[2] = EmptyObject) => merged = frags[1]
    /\ (Len(frags) = 2 /\ frags[1] = EmptyObject) => merged = frags[2]

\* C17 witness: a fragment of two sections was merged with {} after it, and
\* the result is the fragment.
C17_Witness ==
  /\ sphase = "merged"
  /\ Len(frags) = 2
  /\ frags[2] = EmptyObject
  /\ Cardinality(DOMAIN frags[1]) = 2
  /\ merged = frags[1]

\* The fetch calls made for the l-th loadSettingsFromUrl call.
FetchesOf(l) == {f \in DOMAIN fetches : fetches[f].load = l}

\* The Builder operations the claim about retries names.
SingleCallOps ==
  SignNames \cup {"addResource", "addIngredient", "toArchive"}

\* C18: no operation retries. Every loadSettingsFromUrl call, however it
\* ends, has made exactly one fetch, and every sign, addResource,
\* addIngredient and toArchive call has made at most one engine call.
C18_NoRetry ==
  /\ \A l \in DOMAIN loads :
       /\ Cardinality(FetchesOf(l)) = 1
       /\ \A f \in FetchesOf(l) : fetches[f].url = loads[l].url
  /\ \A i \in DOMAIN ops :
       ops[i].name \in SingleCallOps => Cardinality(CallsOf(i)) <= 1

\* C18 witness: a loadSettingsFromUrl call has failed on an error of the
\* transport and a Builder operation has failed, each after one call.
C18_Witness ==
  /\ \E l \in DOMAIN loads :
       /\ loads[l].status = "rejected" /\ loads[l].fetched.rejected
       /\ Cardinality(FetchesOf(l)) = 1
  /\ \E i \in DOMAIN ops :
       /\ ops[i].name \in SingleCallOps /\ ops[i].status = "rejected"
       /\ Cardinality(CallsOf(i)) = 1

\* C19: on a response whose status is not a success, loadSettingsFromUrl
\* fails with the message "Failed to fetch settings from URL: <status>
\* <statusText>" and does not return the body; on a success response, what
\* it returns is the text of the body.
C19_StatusDecides ==
  \A l \in DOMAIN loads :
    LET res == loads[l].fetched.response
    IN  (loads[l].status # "fetching" /\ ~loads[l].fetched.rejected) =>
          IF res.ok
          THEN /\ loads[l].status = "resolved" => loads[l].text = res.body
               /\ loads[l].status = "rejected" => loads[l].read.rejected
          ELSE /\ loads[l].status = "rejected"
               /\ loads[l].error.message =
                    "Failed to fetch settings from URL: "
                      \o ToString(res.status) \o " " \o res.statusText
               /\ loads[l].text # res.body

\* C19 witness: one loadSettingsFromUrl call has failed on a 404 response
\* with the message of the test, and one has returned the body of a 200
\* response.
C19_Witness ==
  /\ \E l \in DOMAIN loads :
       /\ loads[l].status = "rejected"
       /\ loads[l].fetched.response.status = 404
       /\ loads[l].error.message =
            "Failed to fetch settings from URL: 404 Not Found"
  /\ \E l \in DOMAIN loads :
       /\ loads[l].status = "resolved"
       /\ loads[l].fetched.response.status = 200
       /\ loads[l].text = loads[l].fetched.response.body

\* C20: when fetch fails with an error of the transport, loadSettingsFromUrl
\* fails with that error: the same message, not wrapped in another error.
C20_TransportErrorVerbatim ==
  \A l \in DOMAIN loads :
    loads[l].fetched.rejected =>
      /\ loads[l].status = "rejected"
      /\ loads[l].error = loads[l].fetched.error

\* C20 witness: a loadSettingsFromUrl call has failed with the "Network
\* error" of its fetch.
C20_Witness ==
  \E l \in DOMAIN loads :
    /\ loads[l].fetched.rejected
    /\ loads[l].status = "rejected"
    /\ loads[l].error.message = "Network error"

\* The section a create* function writes.
SectionMadeBy(fn) ==
  CASE fn = "createTrustSettings" -> "trust"
    [] fn = "createCawgTrustSettings" -> "cawg_trust"
    [] fn = "createVerifySettings" -> "verify"

\* C24: what a create* function returns has exactly one section, its own;
\* every field the input has is there under its snake_case name with the
\* input's value; the input object is as it was; and createTrustSettings and
\* createCawgTrustSettings give the same options for the same input.
C24_FactoriesRename ==
  \A i \in DOMAIN frags :
    configs[i].fn # "literal" =>
      LET cfg == configs[i].config
          s == SectionMadeBy(configs[i].fn)
      IN  /\ DOMAIN frags[i] = {s}
          /\ \A f \in DOMAIN cfg :
               \E k \in DOMAIN frags[i][s] :
                 FieldOf(k) = f /\ frags[i][s][k] = cfg[f]
          /\ configs[i].after = cfg
          /\ s = "trust" =>
               frags[i][s] = SectionOf(createCawgTrustSettings(cfg), "cawg_trust")
          /\ s = "cawg_trust" =>
               frags[i][s] = SectionOf(createTrustSettings(cfg), "trust")

\* C24 witness: createCawgTrustSettings has made a fragment from a
\* configuration of two fields with values.
C24_Witness ==
  \E i \in DOMAIN frags :
    /\ configs[i].fn = "createCawgTrustSettings"
    /\ Cardinality(DOMAIN configs[i].config) = 2
    /\ \A f \in DOMAIN configs[i].config : configs[i].config[f] # Undefined
    /\ \E k \in TrustKeys : frags[i]["cawg_trust"][k] # Undefined

\* C29: the result of mergeSettings(A, B, C) has the same sections, options
\* and values as merging the merge of A and B with C, and as merging A with
\* the merge of B and C; with more fragments the same holds with A the first
\* fragment alone or C the last fragment alone (nested results are flattened).
C29_Associative ==
  (sphase = "merged" /\ Len(frags) >= 3) =>
    LET n == Len(frags)
    IN  /\ merged = mergeSettings(<<mergeSettings(SubSeq(frags, 1, n - 1)),
                                    frags[n]>>)
        /\ merged = mergeSettings(<<frags[1], mergeSettings(Tail(frags))>>)

\* C29 witness: three fragments carrying the same section were merged, the
\* second sets an option the first has, and the third sets it again.
C29_Witness ==
  /\ sphase = "merged"
  /\ Len(frags) = 3
  /\ \E s \in Sections :
       /\ \A i \in 1..3 : s \in DOMAIN frags[i]
       /\ \E k \in DOMAIN frags[1][s] :
            /\ k \in DOMAIN frags[2][s] /\ k \in DOMAIN frags[3][s]
            /\ frags[1][s][k] # frags[2][s][k]
            /\ frags[2][s][k] # frags[3][s][k]
            /\ merged[s][k] = frags[3][s][k]

\* The fragments that have section s as an object.
Having(s) == {i \in DOMAIN frags : Has(frags[i], s)}

\* C30: the result of mergeSettings has no key besides trust, cawg_trust,
\* verify and builder; it has a section exactly when some argument has that
\* section (as an object); a key of an argument that is no section is not
\* in the result.
C30_OnlySections ==
  sphase = "merged" =>
    /\ DOMAIN merged \subseteq Sections
    /\ \A s \in Sections : s \in DOMAIN merged <=> Having(s) # {}
    /\ \A i \in DOMAIN frags :
         \A x \in DOMAIN frags[i] \ Sections : x \notin DOMAIN merged

\* C30 witness: merged of an argument with a section and the key core and an
\* argument whose only other section is undefined.
C30_Witness ==
  /\ sphase = "merged"
  /\ Len(frags) = 2
  /\ \E x \in OtherKeys : x \in DOMAIN frags[1]
  /\ \E s \in Sections : s \in DOMAIN frags[1] /\ s \in DOMAIN merged
  /\ \E s \in Sections :
       /\ s \in DOMAIN frags[2]
       /\ Having(s) = {}
       /\ s \notin DOMAIN merged

\* C28: the call of mergeSettings and everything the caller later does with
\* the result leave every argument and every section in it as they were;
\* the result and each of its sections is an object the call made, none is
\* an argument or a section of one.
C28_InputsUntouched ==
  [][sphase' # "input" =>
       /\ frags' = frags
       /\ \A x \in DOMAIN refs' : refs'[x] = NewObject
       /\ DOMAIN refs' = {"object"} \cup DOMAIN merged']_vars

\* C28 witness: after the merge the caller has written an option of a result
\* section that only one argument has, and the argument has its own value.
C28_Witness ==
  /\ sphase = "merged"
  /\ \E s \in DOMAIN merged : \E k \in DOMAIN merged[s] :
       /\ merged[s][k] = Written
       /\ Cardinality(Having(s)) = 1
       /\ \A i \in Having(s) : frags[i][s][k] = Val(i)

\* C23: a loadSettingsFromFile call that has returned gives the text that
\* was stored in the file, character for character, whether it is JSON, TOML
\* or neither; a call on a path that cannot be read is rejected, with the
\* error of the read, and a call on a readable path is never rejected.
C23_FileTextAsStored ==
  \A l \in DOMAIN fileLoads :
    LET load == fileLoads[l] IN
      load.status # "reading" =>
        /\ load.path \in DOMAIN StoredTexts =>
             load.status = "resolved" /\ load.text = StoredTexts[load.path]
        /\ load.path \in DOMAIN OtherFiles => load.status = "resolved"
        /\ load.path \in DOMAIN Unreadable =>
             load.status = "rejected" /\ load.error = Unreadable[load.path]

\* C23 witness: a call on a file whose text is no JSON has returned it, and
\* a call on a path that is not there was rejected.
C23_Witness ==
  /\ \E l \in DOMAIN fileLoads :
       /\ fileLoads[l].path = "broken.json"
       /\ fileLoads[l].status = "resolved"
       /\ fileLoads[l].text = <<"{", "[", "v">>
  /\ \E l \in DOMAIN fileLoads :
       /\ fileLoads[l].path = "nonexistent.json"
       /\ fileLoads[l].status = "rejected"

\* C25: every signAsync has made exactly one engine call, on the Builder's
\* handle: builderIdentitySignAsync when the signer is an
\* IdentityAssertionSigner and builderSignAsync when it is not, with the
\* handle of that signer, the caller's source and the caller's destination
\* as its arguments.
C25_OneEntryPointBySigner ==
  \A j \in DOMAIN ops :
    ops[j].name = "signAsync" =>
      /\ Cardinality(CallsOf(j)) = 1
      /\ \A c \in CallsOf(j) :
           /\ engineCalls[c].handle = builder
           /\ engineCalls[c].fn = "builderIdentitySignAsync"
                <=> IsIdentity(ops[j].arg)
           /\ engineCalls[c].fn = "builderSignAsync"
                <=> ~IsIdentity(ops[j].arg)
           /\ engineCalls[c].args =
                <<GetHandle(ops[j].arg), ops[j].input, ops[j].output>>

\* C25 witness: a signAsync with an IdentityAssertionSigner and one with
\* another signer, on different sources, have both reached the engine and
\* one of them has settled.
C25_Witness ==
  \E i \in DOMAIN ops : \E j \in DOMAIN ops :
    /\ ops[i].name = "signAsync" /\ ops[j].name = "signAsync"
    /\ IsIdentity(ops[i].arg) /\ ops[j].arg = "callback2"
    /\ ops[i].input # ops[j].input
    /\ CallsOf(i) # {} /\ CallsOf(j) # {}
    /\ ops[i].status # "pending"

\* C26: every addIngredient has made exactly one engine call:
\* builderAddIngredientFromAsset with the definition and the asset when an
\* asset was given, builderAddIngredient with the definition alone when none
\* was; the asset entry point is never called without an asset.
C26_OneCallByAsset ==
  \A j \in DOMAIN ops :
    ops[j].name = "addIngredient" =>
      /\ Cardinality(CallsOf(j)) = 1
      /\ \A c \in CallsOf(j) :
           IF ops[j].input # NoInput
           THEN /\ engineCalls[c].fn = "builderAddIngredientFromAsset"
                /\ engineCalls[c].args =
                     <<IngredientJson(ops[j].arg), ops[j].input>>
           ELSE /\ engineCalls[c].fn = "builderAddIngredient"
                /\ engineCalls[c].args = <<IngredientJson(ops[j].arg)>>

\* C26 witness: an addIngredient with an asset and one without have both
\* been answered by the engine.
C26_Witness ==
  \E i \in DOMAIN ops : \E j \in DOMAIN ops :
    /\ ops[i].name = "addIngredient" /\ ops[j].name = "addIngredient"
    /\ ops[i].input = IngredientAsset /\ ops[j].input = NoInput
    /\ ops[i].status # "pending" /\ ops[j].status # "pending"

\* The Builders for which an engine call was made.
Constructed == {k \in DOMAIN instances : instances[k].fn # "none"}

\* C22: the settings string the engine holds for a Builder is the one made
\* from the settings argument of the call that constructed it, as the
\* argument was at that call (a string as it is, an object as its JSON text,
\* none when left out); no step changes it, neither a change of the
\* caller's settings object nor the construction of another Builder; and no
\* operation of a Builder has settings among the arguments of its engine
\* call.
C22_SettingsFixedAtConstruction ==
  [][/\ \A k \in Constructed :
          /\ instances'[k].held = instances[k].held
          /\ instances'[k].given = instances[k].given
          /\ instances[k].held.defined = instances[k].passed.defined
          /\ instances[k].held.text = instances[k].passed.text
          /\ instances[k].given.kind = "none" => ~instances[k].passed.defined
          /\ instances[k].given.kind = "string" =>
               IF instances[k].given.text = ""
               THEN ~instances[k].passed.defined
               ELSE /\ instances[k].passed.defined
                    /\ instances[k].passed.text = instances[k].given.text
          /\ instances[k].given.kind = "object" =>
               /\ instances[k].passed.defined
               /\ instances[k].passed.text =
                    JsonStringify(instances[k].given.object)
     /\ \A c \in DOMAIN engineCalls' : ~engineCalls'[c].settings]_vars

\* C22 witness: a Builder was made with the caller's settings object, the
\* caller has changed the object since, another Builder was made with other
\* settings, and an operation was issued on a Builder.
C22_Witness ==
  \E k \in Constructed : \E j \in Constructed :
    /\ k < j
    /\ instances[k].given.kind = "object"
    /\ instances[k].given.object # callerSettings
    /\ instances[j].passed # instances[k].passed
    /\ instances[k].held.text = JsonStringify(instances[k].given.object)
    /\ engineCalls # <<>>

\* toArchive issued as operation i succeeds in this step.
ArchiveWritten(i) ==
  /\ ops[i].name = "toArchive"
  /\ ops[i].status = "pending"
  /\ ops'[i].status = "resolved"

\* fromArchive returns the k-th Builder in this step.
Restored(k) == instances[k].status = "pending" /\ instances'[k].status = "ready"

Apart(i) ==
  \A j \in DOMAIN ops \ {i} :
    IsAsyncSign(j) => (ops[j].output # ops[i].output /\ ops[j].on # ops[i].on)

\* C27: of asynchronous signs that are on different Builders and have
\* different destinations, each one that has resolved has resolved with the
\* manifest of its own engine result, and if its destination is a buffer
\* that buffer is the signedAsset of that result; the destination of one
\* that is pending or rejected is as it was, whatever the others have done.
C27_ConcurrentSignsApart ==
  \A i \in DOMAIN ops :
    (IsAsyncSign(i) /\ Apart(i)) =>
      IF ops[i].status = "resolved"
      THEN IF ToBuffer(i)
           THEN /\ ops[i].value = Buf(ops[i].raw.manifest)
                /\ outputs[ops[i].output].buffer = ops[i].raw.signedAsset
           ELSE /\ ops[i].value = Buf(ops[i].raw.bytes)
                /\ outputs[ops[i].output] = InitOutputs[ops[i].output]
      ELSE outputs[ops[i].output] = InitOutputs[ops[i].output]

\* C27 witness: two asynchronous signs on different Builders to different
\* buffers have resolved, each with its own manifest and signed asset, and
\* the caller is back on the Builder of the first.
C27_Witness ==
  /\ Len(ops) = 2
  /\ IsAsyncSign(1) /\ IsAsyncSign(2) /\ Apart(1)
  /\ ToBuffer(1) /\ ToBuffer(2)
  /\ ops[1].status = "resolved" /\ ops[2].status = "resolved"
  /\ ops[1].raw.signedAsset # ops[2].raw.signedAsset
  /\ ops[1].raw.manifest # ops[2].raw.manifest
  /\ builder = ops[1].on
  /\ outputs[ops[1].output].buffer = ops[1].raw.signedAsset
  /\ outputs[ops[2].output].buffer = ops[2].raw.signedAsset

====
